---- MODULE Spec2Model ----
(***************************************************************************)
(* Model of the PDF chatbot proof of concept:                              *)
(*   - split_text            (apps/ingest/utils.py)                        *)
(*   - _prepare_context_chunks, generate_answer                            *)
(*                           (chatbot_poc/apps/retrieval/llm_client.py)    *)
(* Strings of split_text are sequences of one-character strings.           *)
(***************************************************************************)
EXTENDS Integers, Sequences, FiniteSets, TLC

(***************************************************************************)
(* Bounds of the model.                                                    *)
(***************************************************************************)
MaxTextLen == 7
MaxParam == 3
MaxIters == 5
MaxInputChunks == 11
PatternLen == 3
MaxPages == 3
MaxScanPages == 10
MaxDocs == 2
MaxFiles == 2
MaxPayloadDocs == 2

Alphabet == {"a", ".", " "}
ParamRange == (-1)..MaxParam

Min(a, b) == IF a <= b THEN a ELSE b

RECURSIVE SeqsUpTo(_, _)
SeqsUpTo(S, n) ==
    IF n = 0 THEN {<<>>}
    ELSE LET shorter == SeqsUpTo(S, n - 1)
         IN  shorter \cup {Append(s, c) : s \in {t \in shorter : Len(t) = n - 1}, c \in S}

Texts == SeqsUpTo(Alphabet, MaxTextLen)

(***************************************************************************)
(* Python string primitives used by split_text.                            *)
(***************************************************************************)
IsSpace(c) == c = " "

\* str.strip(): drop leading and trailing whitespace
RECURSIVE LStrip(_)
LStrip(s) == IF s # <<>> /\ IsSpace(Head(s)) THEN LStrip(Tail(s)) ELSE s

RECURSIVE RStrip(_)
RStrip(s) ==
    IF s # <<>> /\ IsSpace(s[Len(s)]) THEN RStrip(SubSeq(s, 1, Len(s) - 1)) ELSE s

Strip(s) == RStrip(LStrip(s))

\* str.split(" "): every single blank separates, empty tokens are kept
RECURSIVE SplitOnEveryBlank(_, _, _)
SplitOnEveryBlank(s, cur, acc) ==
    IF s = <<>> THEN Append(acc, cur)
    ELSE IF IsSpace(Head(s)) THEN SplitOnEveryBlank(Tail(s), <<>>, Append(acc, cur))
    ELSE SplitOnEveryBlank(Tail(s), Append(cur, Head(s)), acc)

SplitKeepEmpty(s) == SplitOnEveryBlank(s, <<>>, <<>>)

\* str.split(): the tokens are the maximal runs of non-whitespace characters,
\* in order.  WordStarts: the positions where a run begins; WordEnd: where the
\* run that begins at i ends.
WordStarts(s) == {i \in 1..Len(s) : ~IsSpace(s[i]) /\ (i = 1 \/ IsSpace(s[i - 1]))}

WordEnd(s, i) ==
    CHOOSE j \in i..Len(s) :
        /\ \A m \in i..j : ~IsSpace(s[m])
        /\ (j = Len(s) \/ IsSpace(s[j + 1]))

SplitWS(s) ==
    LET starts == WordStarts(s)
        StartOf(k) == CHOOSE i \in starts : Cardinality({j \in starts : j <= i}) = k
    IN  [k \in 1..Cardinality(starts) |-> SubSeq(s, StartOf(k), WordEnd(s, StartOf(k)))]

\* " ".join(ws[a..b]) for a <= b, by halves
RECURSIVE JoinRange(_, _, _)
JoinRange(ws, a, b) ==
    IF a = b THEN ws[a]
    ELSE LET m == (a + b) \div 2
         IN  JoinRange(ws, a, m) \o <<" ">> \o JoinRange(ws, m + 1, b)

\* " ".join(ws)
JoinSp(ws) == IF ws = <<>> THEN <<>> ELSE JoinRange(ws, 1, Len(ws))

\* s.rfind(c): 0-based offset of the last occurrence of c, -1 when there is none
RFind(s, c) ==
    LET hits == {i \in 1..Len(s) : s[i] = c}
    IN  IF hits = {} THEN -1
        ELSE (CHOOSE i \in hits : \A j \in hits : j <= i) - 1

\* int(n * 0.3), the double product truncated: equal to floor(3n/10) for every
\* length a Python string can have
IntOfThirtyPercent(n) == (3 * n) \div 10

\* words[start:end]
Slice(ws, from, to) == SubSeq(ws, from + 1, to)

VARIABLES
    text, chunk_size, overlap,          \* the arguments of split_text
    split_pc,                           \* "entry" | "loop" | "cleanup" | "done" | "raised"
    split_err,                          \* message of the ValueError raised, or "none"
    words, start, chunks,               \* locals of split_text
    end, candidate, chunk_text, consumed_words,   \* locals of the last loop iteration
    final_chunks,                       \* the returned list (meaningful when "done")
    iters,                              \* number of loop iterations executed
    spans                               \* per iteration: window start, consumed, cut?, appended?

splitVars == <<text, chunk_size, overlap, split_pc, split_err, words, start, chunks,
               end, candidate, chunk_text, consumed_words, final_chunks, iters, spans>>

VARIABLES
    retrieved_chunks,                   \* the list handed to _prepare_context_chunks / generate_answer
    max_total_chars, max_chunks, max_chars_per_chunk,   \* arguments of _prepare_context_chunks
    prepared,                           \* the list _prepare_context_chunks returned
    budget_pc                           \* "idle" | "call" | "returned"

budgetVars == <<retrieved_chunks, max_total_chars, max_chunks, max_chars_per_chunk,
                prepared, budget_pc>>

VARIABLES
    query,                              \* the query argument of generate_answer
    api_key,                            \* OPENAI_API_KEY: "unset" | "empty" | "set"
    answer_pc,                          \* "idle" | "call" | "import" | "invoke" | "returned"
    sources, context_chunks, user_prompt,   \* locals of generate_answer
    rebudgets,                          \* number of corrective re-budgeting passes run
    gen_calls,                          \* number of invocations of the generation capability
    gen_outcome,                        \* "none" | "import_failed" | "ok" | "raised" | "malformed"
    result                              \* the dict generate_answer returned

answerVars == <<query, api_key, answer_pc, sources, context_chunks, user_prompt,
                rebudgets, gen_calls, gen_outcome, result>>

VARIABLES
    pdf_opens,                          \* fitz.open(path) succeeds
    n_pages,                            \* len(doc)
    extract_pc,                         \* "idle" | "open" | "page" | "join" | "returned" | "raised"
    page_number, texts,                 \* locals of extract_text_from_pdf
    full_text,                          \* the returned string (meaningful when "returned")
    page_log                            \* per visited page: what the page gave and its final text

extractVars == <<pdf_opens, n_pages, extract_pc, page_number, texts, full_text, page_log>>

VARIABLES
    scan_opens,                         \* fitz.open(path) succeeds in is_scanned_pdf
    total_pages, ocr_needed_pages,      \* locals of is_scanned_pdf
    scan_i,                             \* the loop variable i
    scan_pc,                            \* "idle" | "open" | "page" | "decide" | "returned" | "raised"
    scan_result,                        \* the returned bool (meaningful when "returned")
    short_pages, unreadable_pages       \* pages seen with short text / whose read raised

scanVars == <<scan_opens, total_pages, ocr_needed_pages, scan_i, scan_pc, scan_result,
              short_pages, unreadable_pages>>

VARIABLES
    opt_doc_id, ingest_all, call_index, \* the options of ingest_pdfs (doc id 0: not given)
    rows,                               \* the Document table: what a reload of each row shows
    docs,                               \* the list docs: the Document objects in memory
    doc_pos,                            \* number of documents the for loop has finished
    ingest_pc,                          \* "idle" | "start" | "doc" | "split" | "done" | "raised"
    ingest_error,                       \* the exception that left handle(), or "none"
    payloads,                           \* ids of the documents whose payload file was written
    ingest_log                          \* per finished document: what its steps did

ingestVars == <<opt_doc_id, ingest_all, call_index, rows, docs, doc_pos, ingest_pc, ingest_error,
                payloads, ingest_log>>

VARIABLES
    folder_is_dir,    \* os.path.isdir(folder_path)
    folder_files,     \* the sorted *.json files of the folder, one payload description each
    delete_existing,  \* the delete_existing argument
    reindex_pc,       \* position in reindex_all_from_folder
    results,          \* results, in the order of the files
    succeeded,        \* succeeded
    failed,           \* failed
    summary           \* the returned summary

reindexVars == <<folder_is_dir, folder_files, delete_existing, reindex_pc, results,
                 succeeded, failed, summary>>

vars == <<splitVars, budgetVars, answerVars, extractVars, scanVars, ingestVars, reindexVars>>

\* the variables a component leaves alone
notSplitVars == <<budgetVars, answerVars, extractVars, scanVars, ingestVars, reindexVars>>
notBudgetVars == <<splitVars, answerVars, extractVars, scanVars, ingestVars, reindexVars>>
notAnswerVars == <<splitVars, max_total_chars, max_chunks, max_chars_per_chunk, prepared,
                   budget_pc, extractVars, scanVars, ingestVars, reindexVars>>
notExtractVars == <<splitVars, budgetVars, answerVars, scanVars, ingestVars, reindexVars>>
notScanVars == <<splitVars, budgetVars, answerVars, extractVars, ingestVars, reindexVars>>
notIngestVars == <<budgetVars, answerVars, extractVars, scanVars, reindexVars>>
notReindexVars == <<splitVars, budgetVars, answerVars, extractVars, scanVars, ingestVars>>

\* a component that is not the one under execution
SplitIdle ==
    /\ text = <<>> /\ chunk_size = 0 /\ overlap = 0
    /\ split_pc = "idle" /\ split_err = "none"
    /\ words = <<>> /\ start = 0 /\ chunks = <<>>
    /\ end = 0 /\ candidate = <<>> /\ chunk_text = <<>> /\ consumed_words = 0
    /\ final_chunks = <<>> /\ iters = 0 /\ spans = <<>>

BudgetIdle ==
    /\ retrieved_chunks = <<>>
    /\ max_total_chars = 0 /\ max_chunks = 0 /\ max_chars_per_chunk = 0
    /\ prepared = <<>>
    /\ budget_pc = "idle"

NoResult == [answer |-> <<>>, sources |-> <<>>, model |-> "", has_error |-> FALSE, error |-> ""]

AnswerIdle ==
    /\ query = <<>> /\ api_key = "unset"
    /\ answer_pc = "idle"
    /\ sources = <<>> /\ context_chunks = <<>> /\ user_prompt = <<>>
    /\ rebudgets = 0 /\ gen_calls = 0 /\ gen_outcome = "none"
    /\ result = NoResult

ExtractIdle ==
    /\ pdf_opens = FALSE /\ n_pages = 0
    /\ extract_pc = "idle"
    /\ page_number = 0 /\ texts = <<>> /\ full_text = <<>> /\ page_log = <<>>

ScanIdle ==
    /\ scan_opens = FALSE
    /\ total_pages = 0 /\ ocr_needed_pages = 0 /\ scan_i = 0
    /\ scan_pc = "idle" /\ scan_result = FALSE
    /\ short_pages = 0 /\ unreadable_pages = 0

NoSummary == [total_files |-> 0, succeeded |-> 0, failed |-> 0, details |-> <<>>, error |-> "unset"]

ReindexIdle ==
    /\ folder_is_dir = FALSE /\ folder_files = <<>> /\ delete_existing = FALSE
    /\ reindex_pc = "idle" /\ results = <<>>
    /\ succeeded = 0 /\ failed = 0 /\ summary = NoSummary

IngestIdle ==
    /\ opt_doc_id = 0 /\ ingest_all = FALSE /\ call_index = FALSE
    /\ rows = <<>> /\ docs = <<>> /\ doc_pos = 0
    /\ ingest_pc = "idle" /\ ingest_error = "none"
    /\ payloads = {} /\ ingest_log = <<>>

(***************************************************************************)
(* split_text                                                              *)
(***************************************************************************)
SplitInit ==
    /\ text \in Texts
    /\ chunk_size \in ParamRange
    /\ overlap \in ParamRange
    /\ split_pc = "entry"
    /\ split_err = "none"
    /\ words = <<>>
    /\ start = 0
    /\ chunks = <<>>
    /\ end = 0
    /\ candidate = <<>>
    /\ chunk_text = <<>>
    /\ consumed_words = 0
    /\ final_chunks = <<>>
    /\ iters = 0
    /\ spans = <<>>
    /\ BudgetIdle
    /\ AnswerIdle
    /\ ExtractIdle
    /\ ScanIdle
    /\ IngestIdle
    /\ ReindexIdle

\* text.strip().split(" ") instead of .split(): runs of blanks yield empty words
TokenizeOnSingleBlanks(t) == SplitKeepEmpty(Strip(t))

\* words = text.strip().split()
Tokenize(t) == SplitWS(Strip(t))

\* the three parameter checks, in the order of the code
ParamError(cs, ov) ==
    IF cs <= 0 THEN "chunk_size must be > 0"
    ELSE IF ov < 0 THEN "overlap must be >= 0"
    ELSE IF ov >= cs THEN "overlap must be smaller than chunk_size"
    ELSE "none"

\* what the prologue of split_text decides: "return" (empty list), "raise", "loop"
EntryOutcome(t, cs, ov) ==
    IF t = <<>> THEN "return"
    ELSE IF Tokenize(t) = <<>> THEN "return"
    ELSE IF ParamError(cs, ov) # "none" THEN "raise"
    ELSE "loop"

SplitEntry ==
    /\ split_pc = "entry"
    /\ LET out == EntryOutcome(text, chunk_size, overlap)
       IN  /\ split_pc' = CASE out = "return" -> "done"
                            [] out = "raise"  -> "raised"
                            [] OTHER          -> "loop"
           /\ split_err' = IF out = "raise" THEN ParamError(chunk_size, overlap) ELSE "none"
           /\ words' = IF text = <<>> THEN <<>> ELSE Tokenize(text)
    /\ UNCHANGED <<text, chunk_size, overlap, start, chunks, end, candidate, chunk_text,
                   consumed_words, final_chunks, iters, spans>>
    /\ UNCHANGED notSplitVars

\* end = min(start + chunk_size, total_words)
WindowEnd(st, cs, total) == Min(st + cs, total)

\* candidate = " ".join(words[start:end])
Candidate(ws, st, e) == JoinSp(Slice(ws, st, e))

\* the comparison weakened to >=
QualifyingPeriodInclusive(cand) ==
    LET split_idx == RFind(cand, ".")
    IN  split_idx # -1 /\ split_idx >= IntOfThirtyPercent(Len(cand))

\* split_idx != -1 and split_idx > int(len(candidate) * 0.3)
QualifyingPeriod(cand) ==
    LET split_idx == RFind(cand, ".")
    IN  split_idx # -1 /\ split_idx > IntOfThirtyPercent(Len(cand))

\* candidate[:split_idx + 1].strip()
CutText(cand) == Strip(SubSeq(cand, 1, RFind(cand, ".") + 1))

\* chunk_text and consumed_words of one window (window_len = end - start)
ChunkOfWindow(cand, window_len) ==
    IF QualifyingPeriod(cand)
    THEN LET cut == CutText(cand)
             n == Len(SplitWS(cut))
         IN  IF n = 0
             THEN [chunk_text |-> cand, consumed_words |-> window_len, cut |-> FALSE]
             ELSE [chunk_text |-> cut, consumed_words |-> n, cut |-> TRUE]
    ELSE [chunk_text |-> cand, consumed_words |-> window_len, cut |-> FALSE]

\* the advance with the overlap forgotten
NextStartNoOverlap(st, consumed, ov) == st + consumed

\* start = start + consumed_words - overlap; if start <= 0: start = consumed_words
NextStart(st, consumed, ov) ==
    LET advanced == st + consumed - ov
    IN  IF advanced <= 0 THEN consumed ELSE advanced

\* if chunk_text: chunks.append(chunk_text)
AppendIfNonEmpty(chs, ct) == IF ct # <<>> THEN Append(chs, ct) ELSE chs

\* one iteration of the while loop, up to and including the break test
SplitLoop ==
    /\ split_pc = "loop"
    /\ iters < MaxIters
    /\ LET total_words == Len(words)
           e == WindowEnd(start, chunk_size, total_words)
           cand == Candidate(words, start, e)
           w == ChunkOfWindow(cand, e - start)
           ns == NextStart(start, w.consumed_words, overlap)
       IN  /\ end' = e
           /\ candidate' = cand
           /\ chunk_text' = w.chunk_text
           /\ consumed_words' = w.consumed_words
           /\ chunks' = AppendIfNonEmpty(chunks, w.chunk_text)
           /\ start' = ns
           /\ spans' = Append(spans, [start |-> start, consumed |-> w.consumed_words,
                                      cut |-> w.cut, appended |-> w.chunk_text # <<>>])
           /\ split_pc' = IF ns >= total_words THEN "cleanup" ELSE "loop"
    /\ iters' = iters + 1
    /\ UNCHANGED <<text, chunk_size, overlap, split_err, words, final_chunks>>
    /\ UNCHANGED notSplitVars

\* final_chunks = [c.strip() for c in chunks if c and c.strip()]
RECURSIVE FinalCleanup(_)
FinalCleanup(chs) ==
    IF chs = <<>> THEN <<>>
    ELSE IF Head(chs) # <<>> /\ Strip(Head(chs)) # <<>>
         THEN <<Strip(Head(chs))>> \o FinalCleanup(Tail(chs))
         ELSE FinalCleanup(Tail(chs))

SplitReturn ==
    /\ split_pc = "cleanup"
    /\ final_chunks' = FinalCleanup(chunks)
    /\ split_pc' = "done"
    /\ UNCHANGED <<text, chunk_size, overlap, split_err, words, start, chunks, end,
                   candidate, chunk_text, consumed_words, iters, spans>>
    /\ UNCHANGED notSplitVars

SplitNext == SplitEntry \/ SplitLoop \/ SplitReturn

SplitSpec == SplitInit /\ [][SplitNext]_vars

(***************************************************************************)
(* Properties of split_text                                                *)
(***************************************************************************)
ValidParams == chunk_size > 0 /\ overlap >= 0 /\ overlap < chunk_size

\* the spans of the iterations that appended a chunk: chunks[i] was cut from
\* words[start .. start + consumed)
EmittedSpans == SelectSeq(spans, LAMBDA r : r.appended)

\* number of whitespace-delimited words of s, counted by their first characters
WordCount(s) == Cardinality({i \in 1..Len(s) : s[i] # " " /\ (i = 1 \/ s[i - 1] = " ")})

\* C1: for every text and valid chunk_size > overlap >= 0 split_text terminates.
\* The next cursor is a function of the current one (words and parameters are
\* fixed) and every cursor at the loop head lies in 0..total_words-1, so the
\* loop terminates exactly when it never runs more than total_words iterations.
C1_SplitTerminates == iters <= Len(words)

\* C2: every chunk, in the list under construction and in the returned list,
\* is non-empty after trimming whitespace.
C2_ChunksNonEmpty ==
    /\ \A i \in 1..Len(chunks) : Strip(chunks[i]) # <<>>
    /\ split_pc = "done" => \A i \in 1..Len(final_chunks) : Strip(final_chunks[i]) # <<>>

C2_Witness ==
    /\ split_pc = "done"
    /\ Len(final_chunks) >= 2
    /\ \E i \in 1..Len(spans) : spans[i].cut

\* C3: a call with chunk_size <= 0, overlap < 0 or overlap >= chunk_size fails
\* with the invalid-parameters error for every text, also an empty or
\* whitespace-only one, and returns no list.
C3_RejectsInvalidParams ==
    (split_pc # "entry" /\ ~ValidParams) => (split_pc = "raised" /\ split_err # "none")

\* chunk i and chunk i+1 share exactly k words: the last k words of chunk i are
\* the first k words of chunk i+1 and stand at the same input positions
SharesWords(i, k) ==
    LET a == EmittedSpans[i]
        b == EmittedSpans[i + 1]
        wa == SplitWS(chunks[i])
        wb == SplitWS(chunks[i + 1])
    IN  /\ k >= 1 /\ k <= Len(wa) /\ k <= Len(wb)
        /\ b.start = a.start + a.consumed - k
        /\ SubSeq(wa, Len(wa) - k + 1, Len(wa)) = SubSeq(wb, 1, k)

OverlapApplies(i) ==
    /\ EmittedSpans[i].start + EmittedSpans[i].consumed - overlap > 0
    /\ EmittedSpans[i].consumed >= overlap

\* chunk i consists of whole input words: it was not cut, or the period it was
\* cut at is the last character of an input word
EndsAtWordEnd(i) ==
    LET a == EmittedSpans[i]
    IN  SplitWS(chunks[i]) = SubSeq(words, a.start + 1, a.start + a.consumed)

LastPeriodOffset ==
    LET ps == {i \in 1..Len(candidate) : candidate[i] = "."}
    IN  IF ps = {} THEN -1 ELSE (CHOOSE i \in ps : \A j \in ps : j <= i) - 1

PeriodBeyondThirtyPercent ==
    LastPeriodOffset # -1 /\ 10 * LastPeriodOffset >= 10 * ((3 * Len(candidate)) \div 10) + 10

C5_SentenceBoundaryRule ==
    iters > 0 =>
        /\ chunks[Len(chunks)] = chunk_text
        /\ IF PeriodBeyondThirtyPercent
           THEN /\ chunk_text = SubSeq(candidate, 1, LastPeriodOffset + 1)
                /\ chunk_text[Len(chunk_text)] = "."
                /\ consumed_words = WordCount(chunk_text)
           ELSE /\ chunk_text = candidate
                /\ consumed_words = end - spans[Len(spans)].start

C5_Witness ==
    /\ iters > 0
    /\ PeriodBeyondThirtyPercent
    /\ Len(chunk_text) < Len(candidate)
    /\ consumed_words >= 2

(***************************************************************************)
(* Strings of llm_client.  A string is a sequence of segments; a segment   *)
(* is a literal, or the first n characters of the text numbered id (the    *)
(* content of an input chunk, the query).  The empty string is <<>>; no    *)
(* segment has length 0.                                                   *)
(***************************************************************************)
Lit(s) == [lit |-> s, id |-> 0, n |-> Len(s)]
Txt(k, n) == [lit |-> "", id |-> k, n |-> n]

Str(s) == IF s = "" THEN <<>> ELSE <<Lit(s)>>
Text(k, n) == IF n <= 0 THEN <<>> ELSE <<Txt(k, n)>>

\* len(s)
RECURSIVE StrLen(_)
StrLen(r) == IF r = <<>> THEN 0 ELSE Head(r).n + StrLen(Tail(r))

\* s[:m] for m >= 0, s made of text segments
RECURSIVE Prefix(_, _)
Prefix(r, m) ==
    IF r = <<>> \/ m <= 0 THEN <<>>
    ELSE IF Head(r).n <= m THEN <<Head(r)>> \o Prefix(Tail(r), m - Head(r).n)
    ELSE <<Txt(Head(r).id, m)>>

\* sep.join(parts)
RECURSIVE Join(_, _)
Join(sep, parts) ==
    IF parts = <<>> THEN <<>>
    ELSE IF Len(parts) = 1 THEN parts[1]
    ELSE parts[1] \o sep \o Join(sep, Tail(parts))

(***************************************************************************)
(* Values of a chunk's metadata, with their str() and their truth value.   *)
(***************************************************************************)
StrVal(s) == [kind |-> "str", s |-> s]
IntVal(i) == [kind |-> "int", s |-> ToString(i)]
NoneVal == [kind |-> "none", s |-> "None"]

Truthy(v) ==
    CASE v.kind = "str" -> v.s # ""
      [] v.kind = "int" -> v.s # "0"
      [] OTHER -> FALSE

Field(v) == [has |-> TRUE, val |-> v]
NoField == [has |-> FALSE, val |-> NoneVal]

\* a dict, a non-dict value, None, or no "meta" key at all
MetaDict(title, doc_id, page) ==
    [shape |-> "dict", title |-> title, doc_id |-> doc_id, page |-> page]
EmptyDict == MetaDict(NoField, NoField, NoField)
MetaOfShape(sh) == [shape |-> sh, title |-> NoField, doc_id |-> NoField, page |-> NoField]

\* a chunk dict: {"content": ..., "meta": ...}, either key possibly missing
Chunk(has_content, content, meta) ==
    [has_content |-> has_content, content |-> content, meta |-> meta]

\* c.get("content", "")
GetContent(c) == IF c.has_content THEN c.content ELSE <<>>

\* c.get("meta", {})
GetMetaOrEmptyDict(c) == IF c.meta.shape = "absent" THEN EmptyDict ELSE c.meta

\* c.get("meta") or {}: None, a missing key and an empty dict all give {}
GetMetaOr(c) == IF c.meta.shape \in {"absent", "none"} THEN EmptyDict ELSE c.meta

(***************************************************************************)
(* Inputs: ranked lists of retrieved chunks.  Chunk k carries the text     *)
(* numbered k; the kinds of the chunks repeat with period PatternLen.      *)
(***************************************************************************)
ChunkKinds == 1..6

KindChunk(kind, k) ==
    CASE kind = 1 -> Chunk(TRUE, Text(k, 900),
                           MetaDict(Field(StrVal("Accounting Guidance")), Field(IntVal(42)),
                                    Field(IntVal(3))))
      [] kind = 2 -> Chunk(TRUE, Text(k, 4001),
                           MetaDict(Field(StrVal("")), Field(IntVal(17)), Field(NoneVal)))
      [] kind = 3 -> Chunk(TRUE, Text(k, 64000), MetaOfShape("absent"))
      [] kind = 4 -> Chunk(FALSE, <<>>, MetaOfShape("other"))
      [] kind = 5 -> Chunk(TRUE, <<>>, MetaDict(NoField, Field(IntVal(0)), NoField))
      [] OTHER    -> Chunk(TRUE, Text(k, 130000),
                           MetaDict(Field(NoneVal), NoField, Field(IntVal(2))))

ChunkLists ==
    {[k \in 1..n |-> KindChunk(pat[((k - 1) % PatternLen) + 1], k)] :
        n \in 0..MaxInputChunks, pat \in [1..PatternLen -> ChunkKinds]}

(***************************************************************************)
(* _prepare_context_chunks                                                 *)
(***************************************************************************)
TRUNCATED == Lit("\n\n[TRUNCATED]")

\* retrieved_chunks[-max_chunks:] taken for retrieved_chunks[:max_chunks]
TakeFromEnd(chs, n) == SubSeq(chs, Len(chs) - Min(n, Len(chs)) + 1, Len(chs))

\* retrieved_chunks[:max_chunks], max_chunks >= 0
Take(chs, n) == SubSeq(chs, 1, Min(n, Len(chs)))

\* sum(len(c.get("content", "")) for c in chs)
RECURSIVE TotalChars(_)
TotalChars(chs) ==
    IF chs = <<>> THEN 0 ELSE StrLen(GetContent(Head(chs))) + TotalChars(Tail(chs))

\* the body of the truncation loop
TruncateChunk(c, mcpc) ==
    LET content == GetContent(c)
    IN  Chunk(TRUE,
              IF StrLen(content) > mcpc THEN Prefix(content, mcpc) \o <<TRUNCATED>>
              ELSE content,
              GetMetaOrEmptyDict(c))

\* the while loop left out
DropNothing(truncated, mt) == truncated

\* the loop popping the first chunk instead of the last
RECURSIVE DropFromStart(_, _)
DropFromStart(truncated, mt) ==
    IF TotalChars(truncated) > mt /\ truncated # <<>>
    THEN DropFromStart(Tail(truncated), mt)
    ELSE truncated

\* while total_chars > max_total_chars and truncated: truncated.pop()
RECURSIVE DropFromEnd(_, _)
DropFromEnd(truncated, mt) ==
    IF TotalChars(truncated) > mt /\ truncated # <<>>
    THEN DropFromEnd(SubSeq(truncated, 1, Len(truncated) - 1), mt)
    ELSE truncated

\* the early return of a selection within the budget left out
PrepareAlwaysTruncating(rc, mt, mc, mcpc) ==
    IF rc = <<>> THEN <<>>
    ELSE LET selected == Take(rc, mc)
         IN  DropFromEnd([i \in 1..Len(selected) |-> TruncateChunk(selected[i], mcpc)], mt)

PrepareContextChunks(rc, mt, mc, mcpc) ==
    IF rc = <<>> THEN <<>>
    ELSE LET selected == Take(rc, mc)
         IN  IF TotalChars(selected) <= mt THEN selected
             ELSE DropFromEnd([i \in 1..Len(selected) |-> TruncateChunk(selected[i], mcpc)],
                              mt)

(***************************************************************************)
(* The objects _prepare_context_chunks works on.  `caller` is the list the *)
(* caller passed, seen with the current contents of its dicts; `truncated` *)
(* is the list the truncation loop builds.  retrieved_chunks[:max_chunks]  *)
(* is a new list that holds the caller's dicts.                            *)
(***************************************************************************)
\* the truncated content written into the dict shared with the caller's list
StoreTruncatedInPlace(caller, truncated, i, c) ==
    [caller |-> [caller EXCEPT ![i] = c], truncated |-> Append(truncated, c)]

\* truncated.append({"content": content, "meta": c.get("meta", {})}): a new dict
StoreTruncated(caller, truncated, i, c) ==
    [caller |-> caller, truncated |-> Append(truncated, c)]

\* the objects after i iterations of for c in selected
RECURSIVE TruncationLoop(_, _, _, _)
TruncationLoop(caller, selected, mcpc, i) ==
    IF i = 0 THEN [caller |-> caller, truncated |-> <<>>]
    ELSE LET before == TruncationLoop(caller, selected, mcpc, i - 1)
         IN  StoreTruncated(before.caller, before.truncated, i,
                            TruncateChunk(selected[i], mcpc))

\* the caller's list after the call, and the list returned; the while loop
\* pops from truncated only
PrepareObjects(rc, mt, mc, mcpc) ==
    IF rc = <<>> THEN [caller |-> rc, returned |-> <<>>]
    ELSE LET selected == Take(rc, mc)
         IN  IF TotalChars(selected) <= mt THEN [caller |-> rc, returned |-> selected]
             ELSE LET o == TruncationLoop(rc, selected, mcpc, Len(selected))
                  IN  [caller |-> o.caller, returned |-> DropFromEnd(o.truncated, mt)]

MaxTotalCharsChoices == {0, 5000, 64000, 128000}
MaxChunksChoices == {0, 1, 3, 10}
MaxCharsPerChunkChoices == {0, 1000, 4000}

BudgetInit ==
    /\ retrieved_chunks \in ChunkLists
    /\ max_total_chars \in MaxTotalCharsChoices
    /\ max_chunks \in MaxChunksChoices
    /\ max_chars_per_chunk \in MaxCharsPerChunkChoices
    /\ prepared = <<>>
    /\ budget_pc = "call"
    /\ SplitIdle
    /\ AnswerIdle
    /\ ExtractIdle
    /\ ScanIdle
    /\ IngestIdle
    /\ ReindexIdle

BudgetCall ==
    /\ budget_pc = "call"
    /\ prepared' = PrepareContextChunks(retrieved_chunks, max_total_chars, max_chunks,
                                        max_chars_per_chunk)
    /\ retrieved_chunks' = PrepareObjects(retrieved_chunks, max_total_chars, max_chunks,
                                          max_chars_per_chunk).caller
    /\ budget_pc' = "returned"
    /\ UNCHANGED <<max_total_chars, max_chunks, max_chars_per_chunk>>
    /\ UNCHANGED notBudgetVars

BudgetNext == BudgetCall

BudgetSpec == BudgetInit /\ [][BudgetNext]_vars

(***************************************************************************)
(* Properties of _prepare_context_chunks                                   *)
(***************************************************************************)
\* sum of the content lengths of a returned list
RECURSIVE SumOfContentLengths(_)
SumOfContentLengths(chs) ==
    IF chs = <<>> THEN 0
    ELSE (IF Head(chs).has_content THEN StrLen(Head(chs).content) ELSE 0)
         + SumOfContentLengths(Tail(chs))

\* C6: for any list and any non-negative max_total_chars, max_chunks and
\* max_chars_per_chunk the content lengths of the returned chunks sum to at
\* most max_total_chars.
C6_WithinTotalBudget ==
    budget_pc = "returned" => SumOfContentLengths(prepared) <= max_total_chars

\* the truncation path ran, chunks were dropped from the end and some are left
C6_Witness ==
    /\ budget_pc = "returned"
    /\ prepared # <<>>
    /\ Len(prepared) < Min(max_chunks, Len(retrieved_chunks))
    /\ \E k \in 1..Len(prepared) : prepared[k].content # GetContent(retrieved_chunks[k])

\* p is a prefix of the string r (both made of at most one text segment)
IsPrefixOfText(p, r) ==
    \/ p = <<>>
    \/ /\ Len(p) = 1 /\ Len(r) = 1
       /\ p[1].id = r[1].id /\ p[1].id # 0
       /\ p[1].n <= r[1].n

\* out is in: unchanged, or in's content cut to a prefix with the marker appended
DerivedFrom(out, in) ==
    \/ out = in
    \/ /\ out.has_content
       /\ out.meta = GetMetaOrEmptyDict(in)
       /\ \/ out.content = GetContent(in)
          \/ /\ out.content # <<>>
             /\ out.content[Len(out.content)] = TRUNCATED
             /\ IsPrefixOfText(SubSeq(out.content, 1, Len(out.content) - 1), GetContent(in))

\* C7: at most max_chunks chunks are returned and the k-th returned chunk is
\* derived from the k-th input chunk (a prefix of the input, in input order).
C7_PrefixOfInput ==
    budget_pc = "returned" =>
        /\ Len(prepared) <= max_chunks
        /\ Len(prepared) <= Len(retrieved_chunks)
        /\ \A k \in 1..Len(prepared) : DerivedFrom(prepared[k], retrieved_chunks[k])

C7_Witness ==
    /\ budget_pc = "returned"
    /\ Len(retrieved_chunks) > max_chunks
    /\ Len(prepared) = max_chunks
    /\ Len(prepared) >= 3
    /\ \E k \in 1..Len(prepared) : prepared[k] # retrieved_chunks[k]

(***************************************************************************)
(* generate_answer                                                         *)
(***************************************************************************)
APPROX_CHARS_PER_TOKEN == 4
MAX_TOKENS_CONTEXT == 32000
MAX_CHARS_CONTEXT == MAX_TOKENS_CONTEXT * APPROX_CHARS_PER_TOKEN
DEFAULT_MAX_CHUNKS == 10
DEFAULT_TRUNC_PER_CHUNK == 4000
DEFAULT_MODEL == "gpt-4o-mini"

\* the parameters of the corrective re-budgeting pass
REBUDGET_MAX_CHUNKS == 3
REBUDGET_TRUNC_PER_CHUNK == 1000

\* len(_build_prompt_system()): the dedented, stripped instruction text
SYSTEM_PROMPT_CHARS == 1056
BuildPromptSystem ==
    <<[lit |-> "You are an assistant that MUST answer using ONLY the provided document excerpts. ...",
       id |-> 0, n |-> SYSTEM_PROMPT_CHARS]>>

QueryId == 1000
ResponseId == 2000
QueryLens == {17, 130000}
Queries == {Text(QueryId, n) : n \in QueryLens}

\* meta.get(key)
Get(field) == IF field.has THEN field.val ELSE NoneVal

\* the source entry with the document id preferred to the title
SourceOfIdFirst(c) ==
    LET meta == GetMetaOr(c)
        title == IF meta.shape = "dict" THEN Get(meta.title) ELSE NoneVal
        doc_id == IF meta.shape = "dict" THEN Get(meta.doc_id) ELSE NoneVal
    IN  IF Truthy(doc_id) THEN doc_id.s
        ELSE IF Truthy(title) THEN title.s
        ELSE "unknown"

\* one iteration of the sources loop
SourceOf(c) ==
    LET meta == GetMetaOr(c)
        title == IF meta.shape = "dict" THEN Get(meta.title) ELSE NoneVal
        doc_id == IF meta.shape = "dict" THEN Get(meta.doc_id) ELSE NoneVal
    IN  IF Truthy(title) THEN title.s
        ELSE IF Truthy(doc_id) THEN doc_id.s
        ELSE "unknown"

Sources(rc) == [k \in 1..Len(rc) |-> SourceOf(rc[k])]

\* ", ".join(meta_parts)
RECURSIVE JoinComma(_)
JoinComma(parts) ==
    IF parts = <<>> THEN ""
    ELSE IF Len(parts) = 1 THEN parts[1]
    ELSE parts[1] \o ", " \o JoinComma(Tail(parts))

\* meta_str of excerpt i
MetaStr(c, i) ==
    LET meta == GetMetaOr(c)
        meta_parts ==
            IF meta.shape = "dict"
            THEN (IF meta.title.has THEN <<"title=" \o meta.title.val.s>> ELSE <<>>)
                 \o (IF meta.doc_id.has THEN <<"doc_id=" \o meta.doc_id.val.s>> ELSE <<>>)
                 \o (IF meta.page.has THEN <<"page=" \o meta.page.val.s>> ELSE <<>>)
            ELSE <<>>
    IN  IF meta_parts # <<>> THEN JoinComma(meta_parts) ELSE "chunk_index=" \o ToString(i)

\* the three lines one excerpt adds
ExcerptLines(c, i) ==
    <<Str("--- EXCERPT " \o ToString(i) \o " | " \o MetaStr(c, i) \o " ---"),
      GetContent(c),
      <<>>>>

RECURSIVE AllExcerptLines(_, _)
AllExcerptLines(cc, i) ==
    IF i > Len(cc) THEN <<>> ELSE ExcerptLines(cc[i], i) \o AllExcerptLines(cc, i + 1)

BuildUserPrompt(q, cc) ==
    Join(<<Lit("\n")>>,
         <<Str("DOCUMENT EXCERPTS (use ONLY these to answer):")>>
         \o AllExcerptLines(cc, 1)
         \o <<Str("END OF EXCERPTS"), <<>>, Str("USER QUESTION:"), q, <<>>,
              Str("INSTRUCTIONS: Answer using ONLY the excerpts above. If the answer is not present, EXACTLY respond: \"Answer not found in provided documents.\"")>>)

\* "\n\n---\n\n".join(contents) or "No context available."
SEPARATOR == <<Lit("\n\n---\n\n")>>

\* the join without the `or "No context available."` default
ConcatenatedWithoutDefault(cc) == Join(SEPARATOR, [i \in 1..Len(cc) |-> GetContent(cc[i])])

Concatenated(cc) ==
    LET joined == Join(SEPARATOR, [i \in 1..Len(cc) |-> GetContent(cc[i])])
    IN  IF joined = <<>> THEN Str("No context available.") ELSE joined

\* the three fallback returns
NoKeyResult(cc, srcs) ==
    [answer |-> Str("LLM not configured. Returning top document excerpts concatenated below.\n\n")
                \o Concatenated(cc),
     sources |-> srcs, model |-> "fallback", has_error |-> FALSE, error |-> ""]

NoLibraryResult(cc, srcs) ==
    [answer |-> Str("OpenAI client library not available. Returning concatenated excerpts.\n\n")
                \o Concatenated(cc),
     sources |-> srcs, model |-> "fallback", has_error |-> FALSE, error |-> ""]

\* the API-failure return with the error detail left out
CallFailedResultWithoutError(cc, srcs, e) ==
    [answer |-> Str("OpenAI API call failed. Returning concatenated excerpts.\n\n")
                \o Concatenated(cc),
     sources |-> srcs, model |-> "fallback", has_error |-> FALSE, error |-> ""]

CallFailedResult(cc, srcs, e) ==
    [answer |-> Str("OpenAI API call failed. Returning concatenated excerpts.\n\n")
                \o Concatenated(cc),
     sources |-> srcs, model |-> "fallback", has_error |-> TRUE, error |-> e]

\* the success return: the stripped text of the first choice
SuccessResult(srcs, model) ==
    [answer |-> Text(ResponseId, 40), sources |-> srcs, model |-> model,
     has_error |-> FALSE, error |-> ""]

\* the key test with an empty OPENAI_API_KEY taken for a credential
KeyIsSet(k) == k # "unset"

\* os.environ.get("OPENAI_API_KEY") is truthy
KeyConfigured(k) == k = "set"

AnswerInit ==
    /\ retrieved_chunks \in ChunkLists
    /\ query \in Queries
    /\ api_key \in {"unset", "empty", "set"}
    /\ answer_pc = "call"
    /\ sources = <<>> /\ context_chunks = <<>> /\ user_prompt = <<>>
    /\ rebudgets = 0 /\ gen_calls = 0 /\ gen_outcome = "none"
    /\ result = NoResult
    /\ max_total_chars = 0 /\ max_chunks = 0 /\ max_chars_per_chunk = 0
    /\ prepared = <<>> /\ budget_pc = "idle"
    /\ SplitIdle
    /\ ExtractIdle
    /\ ScanIdle
    /\ IngestIdle
    /\ ReindexIdle

\* from the call to the fallback return without a key, or to the import of the client
AnswerPrepare ==
    /\ answer_pc = "call"
    /\ LET srcs == Sources(retrieved_chunks)
           cc == PrepareContextChunks(retrieved_chunks, MAX_CHARS_CONTEXT, DEFAULT_MAX_CHUNKS,
                                      DEFAULT_TRUNC_PER_CHUNK)
           up == BuildUserPrompt(query, cc)
           approx_chars == StrLen(BuildPromptSystem) + StrLen(up)
           rc1 == PrepareObjects(retrieved_chunks, MAX_CHARS_CONTEXT, DEFAULT_MAX_CHUNKS,
                                 DEFAULT_TRUNC_PER_CHUNK).caller
           cc2 == PrepareContextChunks(rc1, MAX_CHARS_CONTEXT \div 2,
                                       REBUDGET_MAX_CHUNKS, REBUDGET_TRUNC_PER_CHUNK)
           rc2 == PrepareObjects(rc1, MAX_CHARS_CONTEXT \div 2, REBUDGET_MAX_CHUNKS,
                                 REBUDGET_TRUNC_PER_CHUNK).caller
       IN  /\ sources' = srcs
           /\ IF ~KeyConfigured(api_key)
              THEN /\ context_chunks' = cc
                   /\ retrieved_chunks' = rc1
                   /\ result' = NoKeyResult(cc, srcs)
                   /\ answer_pc' = "returned"
                   /\ UNCHANGED <<user_prompt, rebudgets>>
              ELSE /\ IF approx_chars > MAX_CHARS_CONTEXT
                      THEN /\ context_chunks' = cc2
                           /\ retrieved_chunks' = rc2
                           /\ user_prompt' = BuildUserPrompt(query, cc2)
                           /\ rebudgets' = rebudgets + 1
                      ELSE /\ context_chunks' = cc
                           /\ retrieved_chunks' = rc1
                           /\ user_prompt' = up
                           /\ UNCHANGED rebudgets
                   /\ answer_pc' = "import"
                   /\ UNCHANGED result
    /\ UNCHANGED <<query, api_key, gen_calls, gen_outcome>>
    /\ UNCHANGED notAnswerVars

\* import openai: it loads, or the fallback for the missing library is returned
AnswerImport ==
    /\ answer_pc = "import"
    /\ \E loaded \in BOOLEAN :
          IF loaded
          THEN /\ answer_pc' = "invoke"
               /\ UNCHANGED <<result, gen_outcome>>
          ELSE /\ gen_outcome' = "import_failed"
               /\ result' = NoLibraryResult(context_chunks, sources)
               /\ answer_pc' = "returned"
    /\ UNCHANGED <<retrieved_chunks, query, api_key, sources, context_chunks, user_prompt,
                   rebudgets, gen_calls>>
    /\ UNCHANGED notAnswerVars

\* a failed call followed by another call instead of the fallback return
RetryAfterCallFailure == "invoke"

\* the except of the call returns the fallback answer
AfterCallFailure == "returned"

\* openai.ChatCompletion.create and the extraction of the text, inside one try:
\* the call answers, the call raises, or the response cannot be read
AnswerInvoke ==
    /\ answer_pc = "invoke"
    /\ gen_calls' = gen_calls + 1
    /\ \E outcome \in {"ok", "raised", "malformed"} :
          /\ gen_outcome' = outcome
          /\ result' = CASE outcome = "ok" -> SuccessResult(sources, DEFAULT_MODEL)
                         [] outcome = "raised" ->
                                CallFailedResult(context_chunks, sources, "remote call failed")
                         [] OTHER ->
                                CallFailedResult(context_chunks, sources, "unreadable response")
          /\ answer_pc' = IF outcome = "ok" THEN "returned" ELSE AfterCallFailure
    /\ UNCHANGED <<retrieved_chunks, query, api_key, sources, context_chunks, user_prompt,
                   rebudgets>>
    /\ UNCHANGED notAnswerVars

AnswerNext == AnswerPrepare \/ AnswerImport \/ AnswerInvoke

AnswerSpec == AnswerInit /\ [][AnswerNext]_vars

(***************************************************************************)
(* Properties of generate_answer                                           *)
(***************************************************************************)
\* a chunk has a title when its metadata is a dict holding a non-empty title
\* string, and a document id when it holds a non-zero id
HasTitle(c) ==
    /\ c.meta.shape = "dict" /\ c.meta.title.has
    /\ c.meta.title.val.kind = "str" /\ c.meta.title.val.s # ""

HasDocId(c) ==
    /\ c.meta.shape = "dict" /\ c.meta.doc_id.has
    /\ c.meta.doc_id.val.kind = "int" /\ c.meta.doc_id.val.s # "0"

ExpectedSource(c) ==
    IF HasTitle(c) THEN c.meta.title.val.s
    ELSE IF HasDocId(c) THEN c.meta.doc_id.val.s
    ELSE "unknown"

\* C8: in every result `sources` has one entry per input chunk, in input
\* order, whatever was selected or truncated: the chunk's title if it has one,
\* else its document id if it has one, else "unknown".
C8_SourcesFromAllInputs ==
    answer_pc = "returned" =>
        /\ Len(result.sources) = Len(retrieved_chunks)
        /\ \A k \in 1..Len(retrieved_chunks) :
              result.sources[k] = ExpectedSource(retrieved_chunks[k])

C8_Witness ==
    /\ answer_pc = "returned"
    /\ Len(context_chunks) < Len(retrieved_chunks)
    /\ \E k \in 1..Len(context_chunks) : context_chunks[k] # retrieved_chunks[k]
    /\ \E k \in 1..Len(retrieved_chunks) : HasTitle(retrieved_chunks[k])
    /\ \E k \in 1..Len(retrieved_chunks) :
          ~HasTitle(retrieved_chunks[k]) /\ HasDocId(retrieved_chunks[k])

\* the contents of the chunks of cc, in order and separated by the
\* horizontal-rule marker, stand in the answer as one contiguous run
ContainsInOrder(ans, cc) ==
    LET body == Join(SEPARATOR, [i \in 1..Len(cc) |-> GetContent(cc[i])])
    IN  \E i \in 0..(Len(ans) - Len(body)) : SubSeq(ans, i + 1, i + Len(body)) = body

\* C9: without a generation credential the generation capability is never
\* invoked and the result has model "fallback" and an answer holding the
\* content of every chunk the budgeter selected, in rank order, separated by
\* the horizontal-rule marker.
C9_FallbackWithoutCredential ==
    (answer_pc = "returned" /\ api_key \in {"unset", "empty"}) =>
        /\ gen_calls = 0
        /\ gen_outcome = "none"
        /\ result.model = "fallback"
        /\ ~result.has_error
        /\ ContainsInOrder(result.answer, context_chunks)
        /\ Len(context_chunks) = Min(Len(retrieved_chunks), DEFAULT_MAX_CHUNKS)

C9_Witness ==
    /\ answer_pc = "returned"
    /\ api_key = "empty"
    /\ Len(context_chunks) >= 2
    /\ Len(context_chunks) < Len(retrieved_chunks)
    /\ \E k \in 1..Len(context_chunks) :
          GetContent(context_chunks[k]) # GetContent(retrieved_chunks[k])

ContainsLiteral(r, s) == \E i \in 1..Len(r) : r[i].id = 0 /\ r[i].lit = s

\* C11: for an empty retrieved_chunks list _prepare_context_chunks returns an
\* empty sequence, and generate_answer without a credential returns an answer
\* containing "No context available." and an empty sources list.
C11_EmptyInput ==
    /\ (budget_pc = "returned" /\ retrieved_chunks = <<>>) => prepared = <<>>
    /\ (answer_pc = "returned" /\ retrieved_chunks = <<>> /\ api_key \in {"unset", "empty"}) =>
          /\ context_chunks = <<>>
          /\ ContainsLiteral(result.answer, "No context available.")
          /\ result.sources = <<>>
          /\ result.model = "fallback"

C11_Witness ==
    /\ answer_pc = "returned"
    /\ retrieved_chunks = <<>>
    /\ api_key = "unset"
    /\ StrLen(result.answer) > 21

\* the selection of the call exceeds max_total_chars: the truncation path runs
TruncationPath ==
    /\ retrieved_chunks # <<>>
    /\ TotalChars(Take(retrieved_chunks, max_chunks)) > max_total_chars

\* C17: on the truncation path every returned chunk's content has at most
\* max_chars_per_chunk characters, begins with a prefix of the original
\* content and carries the original chunk's metadata.
C17_TruncatedWithinPerChunkLimit ==
    (budget_pc = "returned" /\ TruncationPath) =>
        \A k \in 1..Len(prepared) :
            /\ StrLen(prepared[k].content) <= max_chars_per_chunk
            /\ DerivedFrom(prepared[k], retrieved_chunks[k])

\* the first prompt generate_answer builds is longer than the budget
PromptExceedsBudget ==
    StrLen(BuildPromptSystem)
        + StrLen(BuildUserPrompt(query,
                                 PrepareContextChunks(retrieved_chunks, MAX_CHARS_CONTEXT,
                                                      DEFAULT_MAX_CHUNKS,
                                                      DEFAULT_TRUNC_PER_CHUNK)))
    > MAX_CHARS_CONTEXT

\* C18: when the combined prompt exceeds the budget exactly one re-budgeting
\* pass runs before the generation call, and the dispatched prompt holds at
\* most 3 excerpts of at most 1000 characters each, at most half the budget
\* in total.
C18_RebudgetedPromptIsTight ==
    (gen_calls = 1 /\ PromptExceedsBudget) =>
        /\ rebudgets = 1
        /\ Len(context_chunks) <= REBUDGET_MAX_CHUNKS
        /\ \A k \in 1..Len(context_chunks) :
              StrLen(GetContent(context_chunks[k])) <= REBUDGET_TRUNC_PER_CHUNK
        /\ TotalChars(context_chunks) <= MAX_CHARS_CONTEXT \div 2
        /\ user_prompt = BuildUserPrompt(query, context_chunks)


(***************************************************************************)
(* Strings of the PDF utilities.  A string is a sequence of segments; a    *)
(* segment has `lead` whitespace characters, then `core` characters that   *)
(* begin and end with a non-whitespace character, then `trail` whitespace  *)
(* characters.  A segment of whitespace only has core = 0 and trail = 0.   *)
(* The empty string is <<>>; no segment has length 0.                      *)
(***************************************************************************)
PageStr(src, page, lead, core, trail) ==
    IF lead + core + trail = 0 THEN <<>>
    ELSE IF core = 0
         THEN <<[src |-> src, page |-> page, lead |-> lead + trail, core |-> 0, trail |-> 0]>>
         ELSE <<[src |-> src, page |-> page, lead |-> lead, core |-> core, trail |-> trail]>>

\* len(s)
RECURSIVE PageStrLen(_)
PageStrLen(r) ==
    IF r = <<>> THEN 0 ELSE Head(r).lead + Head(r).core + Head(r).trail + PageStrLen(Tail(r))

RECURSIVE PageLStrip(_)
PageLStrip(r) ==
    IF r = <<>> THEN <<>>
    ELSE IF Head(r).core = 0 THEN PageLStrip(Tail(r))
    ELSE <<[Head(r) EXCEPT !.lead = 0]>> \o Tail(r)

RECURSIVE PageRStrip(_)
PageRStrip(r) ==
    IF r = <<>> THEN <<>>
    ELSE IF r[Len(r)].core = 0 THEN PageRStrip(SubSeq(r, 1, Len(r) - 1))
    ELSE SubSeq(r, 1, Len(r) - 1) \o <<[r[Len(r)] EXCEPT !.trail = 0]>>

\* s.strip()
PageStrip(r) == PageRStrip(PageLStrip(r))

\* "\n\n"
BlankLine == PageStr("sep", 0, 2, 0, 0)

\* "\n\n".join(parts)
RECURSIVE JoinPages(_)
JoinPages(parts) ==
    IF parts = <<>> THEN <<>>
    ELSE IF Len(parts) = 1 THEN parts[1]
    ELSE parts[1] \o BlankLine \o JoinPages(Tail(parts))

(***************************************************************************)
(* extract_text_from_pdf                                                   *)
(***************************************************************************)
MIN_TEXT_LENGTH_FOR_NO_OCR == 50

\* what page.get_text() can give for page p: nothing, whitespace only, a short
\* text between blanks, a text of exactly the threshold length
SelectableShapes == {<<0, 0, 0>>, <<2, 0, 0>>, <<1, MIN_TEXT_LENGTH_FOR_NO_OCR - 1, 1>>,
                     <<0, MIN_TEXT_LENGTH_FOR_NO_OCR, 0>>}
SelectableTexts(p) == {PageStr("selectable", p, sh[1], sh[2], sh[3]) : sh \in SelectableShapes}

\* what pytesseract.image_to_string can give: "", whitespace only, a text
OcrShapes == {<<0, 0, 0>>, <<1, 0, 0>>, <<1, 30, 1>>}
OcrTexts(p) == {PageStr("ocr", p, sh[1], sh[2], sh[3]) : sh \in OcrShapes}

\* where the page can fail before the OCR decision, and where the OCR step can
LoadOutcomes == {"ok", "load_page_raised", "get_text_raised"}
OcrOutcomes == {"ok", "render_raised", "image_raised", "ocr_raised"}

\* the OCR result taken only when its trimmed form is non-empty
OcrReplaceIfTrimmedNonEmpty(page_text, ocr_text) ==
    IF PageStrip(ocr_text) # <<>> THEN PageStrip(ocr_text) ELSE page_text

\* if ocr_text: page_text = ocr_text.strip()
OcrReplace(page_text, ocr_text) ==
    IF ocr_text # <<>> THEN PageStrip(ocr_text) ELSE page_text

\* the OCR handler losing the selectable text
OcrFailureDropsText(page_text) == <<>>

\* except Exception as ocr_err: only logs, page_text is what it was
AfterOcrFailure(page_text) == page_text

\* every page text appended, empty or not
KeepAlways(ts, page_text) == Append(ts, page_text)

\* if page_text: texts.append(page_text)
KeepIfNonEmpty(ts, page_text) == IF page_text # <<>> THEN Append(ts, page_text) ELSE ts

\* the page handler re-raising
AbortOnPageError == "raised"

\* except Exception as page_err: only logs, the loop goes on
AfterPageError == "page"

\* the threshold test with <= for <
NeedsOcrInclusive(page_text) == PageStrLen(page_text) <= MIN_TEXT_LENGTH_FOR_NO_OCR

\* if len(page_text) < _MIN_TEXT_LENGTH_FOR_NO_OCR
NeedsOcr(page_text) == PageStrLen(page_text) < MIN_TEXT_LENGTH_FOR_NO_OCR

\* the body of the page loop: what the page gave and the text it ends with
\* calls of pytesseract.image_to_string on a page whose OCR branch ended as
\* ocr: none when the rendering or the image conversion raised before it
OcrInvocations(ocr) == IF ocr \in {"ok", "ocr_raised"} THEN 1 ELSE 0

ProcessPage(load, sel, ocr, ocr_raw) ==
    IF load # "ok"
    THEN [raised |-> TRUE, load |-> load, selectable |-> <<>>, ocr |-> "not_run",
          ocr_calls |-> 0, ocr_text |-> <<>>, page_text |-> <<>>]
    ELSE LET page_text == PageStrip(sel)
         IN  IF NeedsOcr(page_text)
             THEN IF ocr = "ok"
                  THEN [raised |-> FALSE, load |-> load, selectable |-> sel, ocr |-> ocr,
                        ocr_calls |-> OcrInvocations(ocr),
                        ocr_text |-> ocr_raw, page_text |-> OcrReplace(page_text, ocr_raw)]
                  ELSE [raised |-> FALSE, load |-> load, selectable |-> sel, ocr |-> ocr,
                        ocr_calls |-> OcrInvocations(ocr),
                        ocr_text |-> <<>>, page_text |-> AfterOcrFailure(page_text)]
             ELSE [raised |-> FALSE, load |-> load, selectable |-> sel, ocr |-> "not_run",
                   ocr_calls |-> 0, ocr_text |-> <<>>, page_text |-> page_text]

ExtractInit ==
    /\ pdf_opens \in BOOLEAN
    /\ n_pages \in 0..MaxPages
    /\ extract_pc = "open"
    /\ page_number = 0
    /\ texts = <<>>
    /\ full_text = <<>>
    /\ page_log = <<>>
    /\ SplitIdle
    /\ BudgetIdle
    /\ AnswerIdle
    /\ ScanIdle
    /\ IngestIdle
    /\ ReindexIdle

\* doc = fitz.open(path), re-raised when it fails
ExtractOpen ==
    /\ extract_pc = "open"
    /\ extract_pc' = IF pdf_opens THEN "page" ELSE "raised"
    /\ UNCHANGED <<pdf_opens, n_pages, page_number, texts, full_text, page_log>>
    /\ UNCHANGED notExtractVars

\* one iteration of for page_number in range(len(doc))
ExtractPage ==
    /\ extract_pc = "page"
    /\ page_number < n_pages
    /\ \E load \in LoadOutcomes, sel \in SelectableTexts(page_number),
          ocr \in OcrOutcomes, ocr_raw \in OcrTexts(page_number) :
          LET out == ProcessPage(load, sel, ocr, ocr_raw)
          IN  /\ page_log' = Append(page_log, out)
              /\ IF out.raised
                 THEN /\ extract_pc' = AfterPageError
                      /\ UNCHANGED texts
                 ELSE /\ texts' = KeepIfNonEmpty(texts, out.page_text)
                      /\ UNCHANGED extract_pc
    /\ page_number' = page_number + 1
    /\ UNCHANGED <<pdf_opens, n_pages, full_text>>
    /\ UNCHANGED notExtractVars

\* full_text = "\n\n".join(texts).strip(); return full_text
ExtractReturn ==
    /\ extract_pc = "page"
    /\ page_number >= n_pages
    /\ full_text' = PageStrip(JoinPages(texts))
    /\ extract_pc' = "returned"
    /\ UNCHANGED <<pdf_opens, n_pages, page_number, texts, page_log>>
    /\ UNCHANGED notExtractVars

ExtractNext == ExtractOpen \/ ExtractPage \/ ExtractReturn

ExtractSpec == ExtractInit /\ [][ExtractNext]_vars


(***************************************************************************)
(* Properties of extract_text_from_pdf                                     *)
(***************************************************************************)
\* C12: extract_text_from_pdf raises, with no partial text, exactly when the
\* PDF cannot be opened; once it is open no failure of a page (text read,
\* rendering, decoding, OCR) aborts the call, and when every page has been
\* visited it returns a string.
C12_OnlyOpenFailureIsFatal ==
    /\ extract_pc = "raised" =>
          ~pdf_opens /\ page_log = <<>> /\ texts = <<>> /\ full_text = <<>>
    /\ (~pdf_opens /\ extract_pc # "open") => extract_pc = "raised"
    /\ (pdf_opens /\ extract_pc # "open") => extract_pc \in {"page", "returned"}
    /\ extract_pc = "returned" => pdf_opens /\ Len(page_log) = n_pages
    /\ (extract_pc = "page" /\ pdf_opens) => Len(page_log) = page_number

\* returned although one page failed as a whole and the OCR of another raised
C12_Witness ==
    /\ extract_pc = "returned"
    /\ n_pages >= 2
    /\ \E k \in 1..Len(page_log) : page_log[k].raised
    /\ \E k \in 1..Len(page_log) : page_log[k].ocr \in OcrOutcomes \ {"ok"}

\* C13: for a page whose trimmed selectable text is below the threshold and
\* whose OCR ran, the final text is the trimmed OCR result when that is
\* non-empty, and the trimmed selectable text otherwise.
C13_OcrReplacementRule ==
    \A k \in 1..Len(page_log) :
        (~page_log[k].raised /\ page_log[k].ocr = "ok") =>
            page_log[k].page_text =
                OcrReplaceIfTrimmedNonEmpty(PageStrip(page_log[k].selectable),
                                            page_log[k].ocr_text)

\* C14: when the OCR step of a page raises, the page's final text is its
\* trimmed selectable text and the page loop goes on.
C14_OcrFailureKeepsSelectableText ==
    /\ \A k \in 1..Len(page_log) :
          page_log[k].ocr \in OcrOutcomes \ {"ok"} =>
              /\ ~page_log[k].raised
              /\ page_log[k].page_text = PageStrip(page_log[k].selectable)
              /\ PageStrLen(page_log[k].page_text) < MIN_TEXT_LENGTH_FOR_NO_OCR
    /\ page_log # <<>> => extract_pc \in {"page", "returned"}

\* the OCR of a page with a short text raised, and a later page was processed
C14_Witness ==
    \E k \in 1..Len(page_log) :
        /\ page_log[k].ocr = "render_raised"
        /\ page_log[k].page_text # <<>>
        /\ k < Len(page_log)
        /\ page_log[k + 1].ocr = "ok"

\* a page that contributes to the result: it did not raise and its final text
\* is non-empty
Contributes(entry) == ~entry.raised /\ entry.page_text # <<>>

\* C15: the returned text is the final texts of the contributing pages, in
\* page order, with one blank line between neighbours and nothing else.
C15_JoinOfNonEmptyPages ==
    extract_pc = "returned" =>
        LET kept == SelectSeq(page_log, Contributes)
        IN  /\ Len(full_text) = IF kept = <<>> THEN 0 ELSE 2 * Len(kept) - 1
            /\ \A k \in 1..Len(kept) : <<full_text[2 * k - 1]>> = kept[k].page_text
            /\ \A k \in 1..(Len(kept) - 1) : <<full_text[2 * k]>> = BlankLine
            /\ PageStrip(full_text) = full_text

\* two pages contribute, a page between them does not
C15_Witness ==
    /\ extract_pc = "returned"
    /\ Len(page_log) >= 3
    /\ Contributes(page_log[1])
    /\ ~Contributes(page_log[2])
    /\ Contributes(page_log[3])
    /\ page_log[1].ocr = "ok"


(***************************************************************************)
(* is_scanned_pdf                                                          *)
(***************************************************************************)
\* _SCANNED_THRESHOLD_RATIO = 0.30, in hundredths
SCANNED_THRESHOLD_PERCENT == 30

\* ratio >= threshold taken for ratio > threshold
RatioAtLeastThreshold(needed, total) == 100 * needed >= SCANNED_THRESHOLD_PERCENT * total

\* ocr_needed_pages / total_pages > 0.30 for total_pages > 0.  The double
\* quotient compares with the double 0.30 as the fraction does with 3/10 for
\* every page count below 10^15.
RatioAboveThreshold(needed, total) == 100 * needed > SCANNED_THRESHOLD_PERCENT * total

\* the trimmed form of s has fewer characters than the threshold
TrimmedIsShort(s) == s = <<>> \/ (Len(s) = 1 /\ s[1].core < MIN_TEXT_LENGTH_FOR_NO_OCR)

ScanInit ==
    /\ scan_opens \in BOOLEAN
    /\ total_pages \in 0..MaxScanPages
    /\ ocr_needed_pages = 0
    /\ scan_i = 0
    /\ scan_pc = "open"
    /\ scan_result = FALSE
    /\ short_pages = 0
    /\ unreadable_pages = 0
    /\ SplitIdle
    /\ BudgetIdle
    /\ AnswerIdle
    /\ ExtractIdle
    /\ IngestIdle
    /\ ReindexIdle

\* fitz.open re-raised when it fails; a document of no pages is not scanned
ScanOpen ==
    /\ scan_pc = "open"
    /\ IF ~scan_opens THEN scan_pc' = "raised" /\ UNCHANGED scan_result
       ELSE IF total_pages = 0 THEN scan_pc' = "returned" /\ scan_result' = FALSE
       ELSE scan_pc' = "page" /\ UNCHANGED scan_result
    /\ UNCHANGED <<scan_opens, total_pages, ocr_needed_pages, scan_i, short_pages,
                   unreadable_pages>>
    /\ UNCHANGED notScanVars

\* one iteration of for i in range(total_pages)
ScanPage ==
    /\ scan_pc = "page"
    /\ scan_i < total_pages
    /\ \E load \in LoadOutcomes, sel \in SelectableTexts(scan_i) :
          IF load = "ok"
          THEN /\ ocr_needed_pages' =
                      IF PageStrLen(PageStrip(sel)) < MIN_TEXT_LENGTH_FOR_NO_OCR
                      THEN ocr_needed_pages + 1 ELSE ocr_needed_pages
               /\ short_pages' = IF TrimmedIsShort(sel) THEN short_pages + 1 ELSE short_pages
               /\ UNCHANGED unreadable_pages
          ELSE /\ ocr_needed_pages' = ocr_needed_pages + 1
               /\ unreadable_pages' = unreadable_pages + 1
               /\ UNCHANGED short_pages
    /\ scan_i' = scan_i + 1
    /\ UNCHANGED <<scan_opens, total_pages, scan_pc, scan_result>>
    /\ UNCHANGED notScanVars

\* ratio = ocr_needed_pages / total_pages; return ratio > _SCANNED_THRESHOLD_RATIO
ScanReturn ==
    /\ scan_pc = "page"
    /\ scan_i >= total_pages
    /\ scan_result' = RatioAboveThreshold(ocr_needed_pages, total_pages)
    /\ scan_pc' = "returned"
    /\ UNCHANGED <<scan_opens, total_pages, ocr_needed_pages, scan_i, short_pages,
                   unreadable_pages>>
    /\ UNCHANGED notScanVars

ScanNext == ScanOpen \/ ScanPage \/ ScanReturn

ScanSpec == ScanInit /\ [][ScanNext]_vars

(***************************************************************************)
(* Properties of is_scanned_pdf                                            *)
(***************************************************************************)
\* C16: is_scanned_pdf returns true exactly when the document has a page and
\* (pages with a short trimmed text or an unreadable text) / (pages) > 0.30;
\* so no pages or no such page gives false, every page short gives true.
C16_ScannedIffRatioAboveThreshold ==
    scan_pc = "returned" =>
        /\ scan_result <=>
              (total_pages >= 1 /\ 10 * (short_pages + unreadable_pages) > 3 * total_pages)
        /\ total_pages = 0 => ~scan_result
        /\ short_pages + unreadable_pages = 0 => ~scan_result
        /\ (total_pages >= 1 /\ short_pages = total_pages) => scan_result

\* exactly three pages of ten need OCR, one of them unreadable: not scanned
C16_Witness ==
    /\ scan_pc = "returned"
    /\ total_pages = 10
    /\ short_pages = 2
    /\ unreadable_pages = 1
    /\ ~scan_result


(***************************************************************************)
(* Forward progress of split_text                                          *)
(***************************************************************************)
\* the cursor after iteration k: the start of the next window, or the current
\* value of start after the last iteration executed
CursorAfter(k) == IF k < Len(spans) THEN spans[k + 1].start ELSE start

\* C20: with valid parameters every loop iteration leaves the cursor `start`
\* strictly greater than it found it (also when consumed_words <= overlap),
\* so the windows of successive chunks start at strictly increasing positions.
C20_CursorStrictlyAdvances ==
    ValidParams => \A k \in 1..Len(spans) : CursorAfter(k) > spans[k].start


(***************************************************************************)
(* The ingest_pdfs management command (Command.handle) on the Document     *)
(* model it imports, chatbot_poc.apps.core.models.Document.                *)
(***************************************************************************)
\* the concrete fields of Document, and every name the class or an instance has
DocumentFields == {"title", "file", "content", "created_at", "status"}
DocumentAttributes ==
    DocumentFields \cup {"id", "pk", "objects", "save", "STATUS_PENDING", "STATUS_PROCESSING",
                         "STATUS_COMPLETED", "STATUS_FAILED", "STATUS_CHOICES", "__str__"}
StatusChoices == {"pending", "processing", "completed", "failed"}

\* split_text(text): the default chunk_size and overlap
DEFAULT_CHUNK_SIZE == 800
DEFAULT_OVERLAP == 100

\* texts extract_text_from_pdf can hand to split_text: none, one sentence, and
\* one word more than the default overlap
WordsOfA(n) == [i \in 1..(2 * n - 1) |-> IF i % 2 = 1 THEN "a" ELSE " "]
IngestTexts == {<<>>, <<"a", ".">>, WordsOfA(DEFAULT_OVERLAP + 1)}

\* a row of the table, and the object Document.objects.get(pk=i) builds from it
Row(status) == [status |-> status, text_extracted |-> FALSE, notes_error |-> FALSE]
Load(tbl, i) == [id |-> i, status |-> tbl[i].status, text_extracted |-> FALSE,
                 notes_error |-> FALSE]

\* doc.save(update_fields=fs): ValueError for a name that is no field of the
\* model, else the database takes the write or raises
SaveRaises(fs, db_ok) == ~(fs \subseteq DocumentFields) \/ ~db_ok

\* the row after a save of the fields fs of obj that did not raise
Saved(row, obj, fs) ==
    [status |-> IF "status" \in fs THEN obj.status ELSE row.status,
     text_extracted |-> IF "text_extracted" \in fs THEN obj.text_extracted
                        ELSE row.text_extracted,
     notes_error |-> IF "notes" \in fs THEN obj.notes_error ELSE row.notes_error]

\* the handler of the outer try: status 'failed', the error appended to the
\* notes, both saved; any exception in it is only logged
FailureHandler(obj, row, db_ok) ==
    LET marked == [obj EXCEPT !.status = "failed"]
    IN  IF "notes" \notin DocumentAttributes
        THEN [obj |-> marked, row |-> row]
        ELSE LET noted == [marked EXCEPT !.notes_error = TRUE]
             IN  IF SaveRaises({"status", "notes"}, db_ok)
                 THEN [obj |-> noted, row |-> row]
                 ELSE [obj |-> noted, row |-> Saved(row, noted, {"status", "notes"})]

\* the entry ingest_log keeps for a finished document
LogEntry(id, step, db_error, index) ==
    [id |-> id, step |-> step, db_error |-> db_error, index |-> index]

IngestInit ==
    /\ opt_doc_id \in 0..(MaxDocs + 1)
    /\ ingest_all \in BOOLEAN
    /\ call_index \in BOOLEAN
    /\ rows \in [1..MaxDocs -> {Row(st) : st \in StatusChoices}]
    /\ docs = <<>>
    /\ doc_pos = 0
    /\ ingest_pc = "start"
    /\ ingest_error = "none"
    /\ payloads = {}
    /\ ingest_log = <<>>
    /\ SplitIdle
    /\ BudgetIdle
    /\ AnswerIdle
    /\ ExtractIdle
    /\ ScanIdle
    /\ ReindexIdle

\* handle() up to the for loop: the options, the documents, the output directory
IngestStart ==
    /\ ingest_pc = "start"
    /\ \E dir_ok \in BOOLEAN :
          LET both == opt_doc_id # 0 /\ ingest_all
              neither == opt_doc_id = 0 /\ ~ingest_all
              found == opt_doc_id \in 1..Len(rows)
              uploaded == SelectSeq([i \in 1..Len(rows) |-> i],
                                    LAMBDA i : rows[i].status = "uploaded")
              selected == IF opt_doc_id # 0 THEN <<Load(rows, opt_doc_id)>>
                          ELSE [k \in 1..Len(uploaded) |-> Load(rows, uploaded[k])]
              err == IF both \/ neither THEN "CommandError"
                     ELSE IF opt_doc_id # 0
                          THEN (IF found THEN "none" ELSE "CommandError")
                          ELSE IF "STATUS_UPLOADED" \notin DocumentAttributes
                               THEN "AttributeError"
                               ELSE "none"
          IN  IF err # "none"
              THEN /\ ingest_pc' = "raised" /\ ingest_error' = err
                   /\ UNCHANGED docs
              ELSE IF selected = <<>>
                   THEN /\ ingest_pc' = "done"
                        /\ UNCHANGED <<docs, ingest_error>>
                   ELSE IF dir_ok
                        THEN /\ docs' = selected /\ ingest_pc' = "doc"
                             /\ UNCHANGED ingest_error
                        ELSE /\ docs' = selected /\ ingest_pc' = "raised"
                             /\ ingest_error' = "OSError"
    /\ UNCHANGED <<opt_doc_id, ingest_all, call_index, rows, doc_pos, payloads, ingest_log>>
    /\ UNCHANGED splitVars
    /\ UNCHANGED notIngestVars


\* a save of the fields fs reached the database and the database raised
SaveDbError(fs, db_ok) == fs \subseteq DocumentFields /\ ~db_ok

\* the same for the save inside the failure handler
HandlerDbError(db_ok) ==
    "notes" \in DocumentAttributes /\ SaveDbError({"status", "notes"}, db_ok)

\* the indexer step with --call-index: every failure in it is only reported
IndexOutcomes == {"ok", "import_failed", "no_function", "call_raised"}

\* one document, from the top of the loop body to the call of split_text:
\* status 'processing' saved, the file located, the text extracted
IngestBegin ==
    /\ ingest_pc = "doc"
    /\ doc_pos < Len(docs)
    /\ \E db_ok \in BOOLEAN, handler_db_ok \in BOOLEAN, located \in BOOLEAN,
          opened \in BOOLEAN, extracted \in IngestTexts :
          LET k == doc_pos + 1
              obj == docs[k]
              marked == [obj EXCEPT !.status = "processing"]
              save_raises == SaveRaises({"status"}, db_ok)
              row == IF save_raises THEN rows[obj.id]
                     ELSE Saved(rows[obj.id], marked, {"status"})
              step == IF save_raises THEN "save"
                      ELSE IF ~located THEN "locate"
                      ELSE IF ~opened THEN "extract"
                      ELSE "none"
              h == FailureHandler(marked, row, handler_db_ok)
          IN  IF step # "none"
              THEN /\ docs' = [docs EXCEPT ![k] = h.obj]
                   /\ rows' = [rows EXCEPT ![obj.id] = h.row]
                   /\ ingest_log' =
                         Append(ingest_log,
                                LogEntry(obj.id, step,
                                         SaveDbError({"status"}, db_ok)
                                             \/ HandlerDbError(handler_db_ok),
                                         "not_run"))
                   /\ doc_pos' = doc_pos + 1
                   /\ UNCHANGED ingest_pc
                   /\ UNCHANGED splitVars
              ELSE /\ docs' = [docs EXCEPT ![k] = marked]
                   /\ rows' = [rows EXCEPT ![obj.id] = row]
                   /\ text' = extracted
                   /\ chunk_size' = DEFAULT_CHUNK_SIZE
                   /\ overlap' = DEFAULT_OVERLAP
                   /\ split_pc' = "entry"
                   /\ split_err' = "none"
                   /\ words' = <<>> /\ start' = 0 /\ chunks' = <<>>
                   /\ end' = 0 /\ candidate' = <<>> /\ chunk_text' = <<>>
                   /\ consumed_words' = 0
                   /\ final_chunks' = <<>> /\ iters' = 0 /\ spans' = <<>>
                   /\ ingest_pc' = "split"
                   /\ UNCHANGED <<doc_pos, ingest_log>>
    /\ UNCHANGED <<opt_doc_id, ingest_all, call_index, ingest_error, payloads>>
    /\ UNCHANGED notIngestVars

\* the rest of the loop body once split_text has returned or raised: the
\* payload written, text_extracted and status saved, the indexer called
IngestFinish ==
    /\ ingest_pc = "split"
    /\ split_pc \in {"done", "raised"}
    /\ \E write_ok \in BOOLEAN, db_ok \in BOOLEAN, handler_db_ok \in BOOLEAN,
          idx \in IndexOutcomes :
          LET k == doc_pos + 1
              obj == docs[k]
              fs == {"text_extracted", "status"}
              extracted == [obj EXCEPT !.text_extracted = TRUE, !.status = "processing"]
              step == IF split_pc = "raised" THEN "split"
                      ELSE IF ~write_ok THEN "write"
                      ELSE IF SaveRaises(fs, db_ok) THEN "final_save"
                      ELSE "none"
              h == FailureHandler(IF step = "final_save" THEN extracted ELSE obj,
                                  rows[obj.id], handler_db_ok)
          IN  /\ payloads' = IF step \in {"final_save", "none"}
                             THEN payloads \cup {obj.id} ELSE payloads
              /\ IF step # "none"
                 THEN /\ docs' = [docs EXCEPT ![k] = h.obj]
                      /\ rows' = [rows EXCEPT ![obj.id] = h.row]
                      /\ ingest_log' =
                            Append(ingest_log,
                                   LogEntry(obj.id, step,
                                            (step = "final_save" /\ SaveDbError(fs, db_ok))
                                                \/ HandlerDbError(handler_db_ok),
                                            "not_run"))
                 ELSE /\ docs' = [docs EXCEPT ![k] = extracted]
                      /\ rows' = [rows EXCEPT ![obj.id] = Saved(rows[obj.id], extracted, fs)]
                      /\ ingest_log' =
                            Append(ingest_log,
                                   LogEntry(obj.id, step, FALSE,
                                            IF call_index THEN idx ELSE "not_run"))
    /\ doc_pos' = doc_pos + 1
    /\ ingest_pc' = "doc"
    /\ UNCHANGED <<opt_doc_id, ingest_all, call_index, ingest_error>>
    /\ UNCHANGED splitVars
    /\ UNCHANGED notIngestVars

\* the for loop is exhausted: "Ingestion run completed."
IngestEnd ==
    /\ ingest_pc = "doc"
    /\ doc_pos >= Len(docs)
    /\ ingest_pc' = "done"
    /\ UNCHANGED <<opt_doc_id, ingest_all, call_index, rows, docs, doc_pos, ingest_error,
                   payloads, ingest_log>>
    /\ UNCHANGED splitVars
    /\ UNCHANGED notIngestVars

IngestNext ==
    \/ IngestStart
    \/ IngestBegin
    \/ SplitEntry
    \/ SplitLoop
    \/ SplitReturn
    \/ IngestFinish
    \/ IngestEnd

IngestSpec == IngestInit /\ [][IngestNext]_vars

(***************************************************************************)
(* Properties of ingest_pdfs                                               *)
(***************************************************************************)
\* the steps of a document before indexing that the status depends on
OwnSteps == {"locate", "extract", "split", "write"}

\* C19: at the end of the run a processed document has status 'failed', with
\* the error appended to its notes, exactly when one of its own steps before
\* indexing raised, and otherwise has status 'processing' with
\* text_extracted = true, whatever the indexer call did.  Stated for the
\* documents whose saves the database accepted.
C19_StatusLifecycle ==
    ingest_pc = "done" =>
        \A k \in 1..Len(ingest_log) :
            LET entry == ingest_log[k]
                row == rows[entry.id]
            IN  ~entry.db_error =>
                    IF entry.step \in OwnSteps
                    THEN row.status = "failed" /\ row.notes_error
                    ELSE row.status = "processing" /\ row.text_extracted

\* The splitting step of a document never runs the same window twice.  (A
\* repeated window repeats for ever: the loop's next cursor depends on the
\* cursor alone.)  Violated by the text of DEFAULT_OVERLAP + 1 words.
IngestSplitStepProgresses ==
    ingest_pc = "split" =>
        \A i, j \in 1..Len(spans) : i < j => spans[i].start # spans[j].start


(***************************************************************************)
(* Word integrity and coverage of split_text                               *)
(***************************************************************************)
\* the tokens of the string c are a contiguous run of the input words
RunOfInputWords(c) ==
    LET toks == SplitWS(c)
    IN  \E a \in 0..Len(words) :
            /\ a + Len(toks) <= Len(words)
            /\ toks = SubSeq(words, a + 1, a + Len(toks))

\* C21: split_text never splits inside a word: the tokens of every chunk are
\* whole input words and form a contiguous run of them (also when a period
\* stands in the middle of a word).
C21_NeverSplitsInsideWord ==
    ValidParams =>
        /\ \A i \in 1..Len(chunks) : RunOfInputWords(chunks[i])
        /\ split_pc = "done" => \A i \in 1..Len(final_chunks) : RunOfInputWords(final_chunks[i])

\* input word p (1-based) stands, unchanged and at its position, in returned chunk i
WordInChunk(p, i) ==
    LET sp == EmittedSpans[i]
        toks == SplitWS(final_chunks[i])
    IN  /\ sp.start < p
        /\ p <= sp.start + Len(toks)
        /\ toks[p - sp.start] = words[p]

\* C27: split_text loses no input text: with valid parameters every input
\* word appears, unchanged and at its input position, in a returned chunk.
C27_CoversEveryWord ==
    (split_pc = "done" /\ ValidParams) =>
        /\ Len(final_chunks) = Len(EmittedSpans)
        /\ \A p \in 1..Len(words) : \E i \in 1..Len(final_chunks) : WordInChunk(p, i)

\* the input word positions (1-based) emitted chunk k was cut from
PositionsOf(k) ==
    (EmittedSpans[k].start + 1)..(EmittedSpans[k].start + EmittedSpans[k].consumed)

\* C28: every emitted chunk after the first covers an input word position
\* that no chunk emitted before it covers; so after a window that reached the
\* end of the input no chunk made only of its overlap tail follows.
C28_EachChunkAddsNewWords ==
    ValidParams =>
        \A k \in 2..Len(EmittedSpans) :
            \E p \in PositionsOf(k) : \A j \in 1..(k - 1) : p \notin PositionsOf(j)


\* C22: OCR is attempted on a page exactly when its trimmed selectable text
\* is shorter than the threshold; a page with at least 50 characters of
\* trimmed selectable text is neither rendered nor passed to OCR and its final
\* text is its trimmed selectable text.
C22_OcrIffShortText ==
    \A k \in 1..Len(page_log) :
        ~page_log[k].raised =>
            /\ page_log[k].ocr # "not_run" <=> TrimmedIsShort(page_log[k].selectable)
            /\ ~TrimmedIsShort(page_log[k].selectable) =>
                  /\ page_log[k].page_text = PageStrip(page_log[k].selectable)
                  /\ page_log[k].ocr_text = <<>>

\* a page of exactly 50 characters was kept as it is, a page of 49 went to OCR
C22_Witness ==
    \E j, k \in 1..Len(page_log) :
        /\ ~page_log[j].raised /\ ~page_log[k].raised
        /\ PageStrLen(PageStrip(page_log[j].selectable)) = MIN_TEXT_LENGTH_FOR_NO_OCR
        /\ page_log[j].ocr = "not_run"
        /\ PageStrLen(PageStrip(page_log[k].selectable)) = MIN_TEXT_LENGTH_FOR_NO_OCR - 1
        /\ page_log[k].ocr = "ok"


(***************************************************************************)
(* Selection and end-drop of _prepare_context_chunks                       *)
(***************************************************************************)
\* the first max_chunks input chunks
FirstChunks == SubSeq(retrieved_chunks, 1, Min(max_chunks, Len(retrieved_chunks)))

\* C23: when the content lengths of the first max_chunks input chunks sum to
\* at most max_total_chars, exactly those chunks are returned: same count,
\* same order, content and metadata identical.
C23_WithinBudgetUnchanged ==
    (budget_pc = "returned" /\ SumOfContentLengths(FirstChunks) <= max_total_chars) =>
        /\ Len(prepared) = Min(max_chunks, Len(retrieved_chunks))
        /\ \A k \in 1..Len(prepared) : prepared[k] = retrieved_chunks[k]

\* within the budget although a chunk is longer than max_chars_per_chunk and a
\* chunk has no content key; more chunks came in than max_chunks
C23_Witness ==
    /\ budget_pc = "returned"
    /\ SumOfContentLengths(FirstChunks) <= max_total_chars
    /\ Len(retrieved_chunks) > max_chunks
    /\ Len(prepared) >= 3
    /\ \E k \in 1..Len(prepared) : StrLen(GetContent(prepared[k])) > max_chars_per_chunk
    /\ \E k \in 1..Len(prepared) : ~prepared[k].has_content

\* the selection after the truncation loop
TruncatedSelection ==
    [i \in 1..Len(FirstChunks) |-> TruncateChunk(FirstChunks[i], max_chars_per_chunk)]

\* C24: on the truncation path the result is the longest prefix of the
\* truncated selection whose content lengths sum to at most max_total_chars.
C24_LongestFittingPrefix ==
    (budget_pc = "returned" /\ TruncationPath) =>
        /\ Len(prepared) <= Len(TruncatedSelection)
        /\ prepared = SubSeq(TruncatedSelection, 1, Len(prepared))
        /\ SumOfContentLengths(prepared) <= max_total_chars
        /\ Len(prepared) < Len(TruncatedSelection) =>
              SumOfContentLengths(SubSeq(TruncatedSelection, 1, Len(prepared) + 1))
                  > max_total_chars

\* two or more chunks were dropped from the end and some are left
C24_Witness ==
    /\ budget_pc = "returned"
    /\ TruncationPath
    /\ Len(prepared) >= 2
    /\ Len(prepared) + 2 <= Len(TruncatedSelection)
    /\ SumOfContentLengths(prepared) > 0


(***************************************************************************)
(* index_json_payload and reindex_all_from_folder                          *)
(*                                                                         *)
(* A payload file is described by whether it still exists when it is       *)
(* indexed, by what json.load makes of it, and by the number of entries of *)
(* the list it holds.  The calls into haystack_pipeline either return or   *)
(* raise; write_documents and update_embeddings re-raise what the document *)
(* store raises.                                                           *)
(***************************************************************************)
PayloadFiles ==
    {[exists |-> FALSE, shape |-> "list", n |-> 0]}
        \cup {[exists |-> TRUE, shape |-> sh, n |-> 0] : sh \in {"unparsable", "not_list"}}
        \cup {[exists |-> TRUE, shape |-> "list", n |-> k] : k \in 0..MaxPayloadDocs}

PipelineOutcomes == {"ok", "store_raised", "retriever_raised", "write_raised", "embeddings_raised"}

IndexResult(n, known, err, tb) ==
    [indexed |-> n, index_known |-> known, error |-> err, traceback |-> tb]

\* index_json_payload: the first failing step decides the result
IndexJsonPayload(f, outcome) ==
    IF ~f.exists THEN IndexResult(0, FALSE, "not_found", FALSE)
    ELSE IF f.shape = "unparsable" THEN IndexResult(0, FALSE, "parse_error", FALSE)
    ELSE IF f.shape = "not_list" THEN IndexResult(0, FALSE, "not_a_list", FALSE)
    ELSE IF outcome = "store_raised" THEN IndexResult(0, FALSE, "store_error", FALSE)
    ELSE IF outcome = "retriever_raised" THEN IndexResult(0, TRUE, "retriever_error", FALSE)
    ELSE IF outcome = "write_raised" THEN IndexResult(0, TRUE, "write_error", FALSE)
    ELSE IF outcome = "embeddings_raised" THEN IndexResult(f.n, TRUE, "embeddings_error", TRUE)
    ELSE IndexResult(f.n, TRUE, "none", FALSE)

\* the branches that add to succeeded
CountsAsSucceeded(res) ==
    IF res.indexed > 0 /\ res.error = "none"
    THEN TRUE
    ELSE IF res.indexed > 0 THEN TRUE ELSE FALSE

FolderContents ==
    UNION {[1..k -> PayloadFiles] : k \in 0..MaxFiles}

ReindexInit ==
    /\ folder_is_dir \in BOOLEAN
    /\ folder_files \in FolderContents
    /\ delete_existing \in BOOLEAN
    /\ reindex_pc = "called"
    /\ results = <<>>
    /\ succeeded = 0
    /\ failed = 0
    /\ summary = NoSummary
    /\ SplitIdle
    /\ BudgetIdle
    /\ AnswerIdle
    /\ ExtractIdle
    /\ ScanIdle
    /\ IngestIdle

\* the folder check, and the listing of its JSON files
ReindexEnter ==
    /\ reindex_pc = "called"
    /\ IF ~folder_is_dir
       THEN /\ summary' = [NoSummary EXCEPT !.error = "folder_not_found"]
            /\ reindex_pc' = "returned"
       ELSE /\ summary' = summary
            /\ reindex_pc' = "loop"
    /\ UNCHANGED <<folder_is_dir, folder_files, delete_existing, results, succeeded, failed>>
    /\ UNCHANGED notReindexVars

\* one iteration of the loop over the files
ReindexFile ==
    /\ reindex_pc = "loop"
    /\ Len(results) < Len(folder_files)
    /\ \E outcome \in PipelineOutcomes :
          LET res == IndexJsonPayload(folder_files[Len(results) + 1], outcome)
          IN  /\ results' = Append(results, res)
              /\ IF CountsAsSucceeded(res)
                 THEN succeeded' = succeeded + 1 /\ failed' = failed
                 ELSE failed' = failed + 1 /\ succeeded' = succeeded
    /\ UNCHANGED <<folder_is_dir, folder_files, delete_existing, reindex_pc, summary>>
    /\ UNCHANGED notReindexVars

ReindexReturn ==
    /\ reindex_pc = "loop"
    /\ Len(results) = Len(folder_files)
    /\ summary' = [total_files |-> Len(folder_files), succeeded |-> succeeded,
                   failed |-> failed, details |-> results, error |-> "none"]
    /\ reindex_pc' = "returned"
    /\ UNCHANGED <<folder_is_dir, folder_files, delete_existing, results, succeeded, failed>>
    /\ UNCHANGED notReindexVars

ReindexNext == ReindexEnter \/ ReindexFile \/ ReindexReturn

ReindexSpec == ReindexInit /\ [][ReindexNext]_vars

\* C26: every JSON file of the folder is classified exactly once; it counts as
\* failed if its result carries an error or reports zero indexed documents,
\* and as succeeded only if it reports more than zero indexed documents and
\* no error; a failing file does not stop the files after it.
C26_ClassifiesByErrorOrZero ==
    (reindex_pc = "returned" /\ folder_is_dir) =>
        LET d == summary.details
            bad == {k \in 1..Len(d) : d[k].error # "none" \/ d[k].indexed = 0}
            good == {k \in 1..Len(d) : d[k].error = "none" /\ d[k].indexed > 0}
        IN  /\ summary.total_files = Len(folder_files)
            /\ Len(d) = Len(folder_files)
            /\ summary.failed = Cardinality(bad)
            /\ summary.succeeded = Cardinality(good)


(***************************************************************************)
(* One call of either function that reaches a remote capability:           *)
(* generate_answer (generation) or extract_text_from_pdf (OCR)             *)
(***************************************************************************)
RemoteCallInit == AnswerInit \/ ExtractInit

RemoteCallNext == AnswerNext \/ ExtractNext

RemoteCallSpec == RemoteCallInit /\ [][RemoteCallNext]_vars

\* C25: no retry.  One generate_answer call invokes the generation capability
\* at most once, and a failed invocation is followed by the fallback answer;
\* one extract_text_from_pdf call invokes OCR at most once per page, and a
\* failed OCR is followed by keeping the selectable text.
C25_NoRetry ==
    /\ gen_calls <= 1
    /\ gen_outcome \in {"raised", "malformed"} =>
          /\ gen_calls = 1
          /\ answer_pc = "returned"
          /\ result.model = "fallback"
          /\ result.has_error
    /\ \A k \in 1..Len(page_log) :
          /\ page_log[k].ocr_calls <= 1
          /\ page_log[k].ocr \in {"render_raised", "image_raised", "ocr_raised"} =>
                page_log[k].page_text = PageStrip(page_log[k].selectable)

\* a generation call that raised and was answered by the fallback
C25_GenerationFailedOnce ==
    answer_pc = "returned" /\ gen_outcome = "raised" /\ gen_calls = 1

\* an extraction that went on after the OCR engine raised on a page with text
C25_OcrFailedOnce ==
    /\ extract_pc = "returned"
    /\ \E k \in 1..Len(page_log) :
          /\ page_log[k].ocr = "ocr_raised"
          /\ page_log[k].ocr_calls = 1
          /\ page_log[k].page_text # <<>>
          /\ k < Len(page_log)

C25_Witness == C25_GenerationFailedOnce \/ C25_OcrFailedOnce


\* C29: the system prompt and the user prompt handed to the generation
\* capability together hold at most MAX_CHARS_CONTEXT characters, for every
\* query and every list of retrieved chunks.
C29_DispatchedPromptWithinBudget ==
    (answer_pc = "invoke" \/ gen_calls = 1) =>
        StrLen(BuildPromptSystem) + StrLen(user_prompt) <= MAX_CHARS_CONTEXT


(***************************************************************************)
(* One call of _prepare_context_chunks with any arguments, or one call of  *)
(* generate_answer                                                         *)
(***************************************************************************)
InputFrameInit == BudgetInit \/ AnswerInit

InputFrameNext == BudgetNext \/ AnswerNext

InputFrameSpec == InputFrameInit /\ [][InputFrameNext]_vars

\* C30: no step of _prepare_context_chunks or of generate_answer changes the
\* caller's retrieved_chunks list: same length and order, every chunk with
\* its content and metadata, on every path.
C30_InputUnchanged == [][retrieved_chunks' = retrieved_chunks]_vars

\* a call of _prepare_context_chunks that truncated a chunk and dropped chunks
\* from the end
C30_AfterEndDrop ==
    /\ budget_pc = "returned"
    /\ TruncationPath
    /\ 0 < Len(prepared) /\ Len(prepared) < Len(FirstChunks)
    /\ \E k \in 1..Len(prepared) : prepared[k] # retrieved_chunks[k]

\* a call of generate_answer whose re-budgeting pass truncated a chunk
C30_AfterRebudget ==
    /\ answer_pc \in {"import", "invoke", "returned"}
    /\ rebudgets = 1
    /\ context_chunks # <<>>
    /\ \E k \in 1..Len(context_chunks) : context_chunks[k] # retrieved_chunks[k]
    /\ Len(sources) > 0

C30_Witness == C30_AfterEndDrop \/ C30_AfterRebudget


====
